---- MODULE Spec2Model ----
(***************************************************************************)
(* Decoder (src/src/decoder.rs): a cursor over a borrowed byte buffer.     *)
(* The state is the buffer, the index of the next unread byte, and the     *)
(* outcome of the last call (what the caller got back).                    *)
(***************************************************************************)
EXTENDS Integers, Sequences, FiniteSets, TLC

VARIABLES buffer, index, last

vars == <<buffer, index, last>>

(* ------------------------------ bounds --------------------------------- *)

\* Width of usize in bits (the target's pointer width, scaled down).
UsizeBits == 7

\* Every buffer length up to SmallLen is tried.
SmallLen == 9

\* The longest buffer tried (two IPv6 addresses need 32 bytes).
MaxLen == 32

UsizeMax == 2^UsizeBits - 1

\* A Rust slice never holds more than isize::MAX bytes.
IsizeMax == 2^(UsizeBits - 1) - 1

(* --------------------------- program constants ------------------------- *)

SizeOfU8 == 1
SizeOfU16 == 2
SizeOfU32 == 4
SizeOfI32 == 4
SizeOfU64 == 8
Ipv4Len == 4
Ipv4sChunk == 4
Ipv6sChunk == 16
PairChunk == 8

(* ------------------------------ inputs --------------------------------- *)

\* Three byte streams a buffer is cut from:
\*   "ramp"    0, 1, 2, ...: every byte differs from its neighbours;
\*   "text"    "ab\0", then U+00E9 as C3 A9 and a nul, then FF 'a' nul, repeated;
\*   "extreme" eight FF bytes, then 80, then zeros.
Patterns == {"ramp", "text", "extreme"}

\* The i-th byte (1-based) of the stream k.
PatternByte(k, i) ==
    CASE k = "ramp"  -> (i - 1) % 256
      [] k = "text"  -> <<97, 98, 0, 195, 169, 0, 255, 97, 0>>[((i - 1) % 9) + 1]
      [] OTHER       -> IF i <= 8 THEN 255 ELSE IF i = 9 THEN 128 ELSE 0

Min(a, b) == IF a < b THEN a ELSE b

\* The buffer lengths tried; a Rust slice holds at most isize::MAX bytes.
BufLens == { n \in (0..SmallLen) \cup {16, 17, 20, MaxLen} : n <= IsizeMax }

Buffers == { [i \in 1..n |-> PatternByte(k, i)] : n \in BufLens, k \in Patterns }

\* The const parameter N of read::<N>.
ReadSizes == {0, 3, 16, UsizeMax}

\* The const parameter MAX of read_cstring::<MAX> and read_const_string::<MAX>.
StrSizes == {2, 3, 6}

\* The runtime len / length arguments.
LenArgs == {0, 3, 4, 8, 10, 16, 32, UsizeMax - 15, UsizeMax}

(* ------------------------- results of a call --------------------------- *)

\* What a call hands back.  ok: Ok(..) or Err(..); err/errIndex: the error and
\* the index EndOfBuffer carries; some: the Option is Some (TRUE for a plain
\* value); bytes: a byte array, slice, string or address; num: an unsigned
\* integer as 16-bit limbs, least significant first; int: an i32; flag: a bool;
\* list: a Vec of addresses; index: self.index when the call returns.
Blank ==
    [ok |-> TRUE, err |-> "", errIndex |-> 0, some |-> TRUE, bytes |-> <<>>,
     num |-> <<>>, int |-> 0, flag |-> FALSE, list |-> <<>>, index |-> 0]

Err(e, at, idx) == [Blank EXCEPT !.ok = FALSE, !.err = e, !.errIndex = at, !.index = idx]

OkBytes(b, idx) == [Blank EXCEPT !.bytes = b, !.index = idx]

OkNone(idx) == [Blank EXCEPT !.some = FALSE, !.index = idx]

(* --------------------------- std primitives ---------------------------- *)

\* usize::wrapping_add in place of checked_add: the sum taken modulo 2^UsizeBits.
WrappingAdd(a, b) == [some |-> TRUE, val |-> (a + b) % (UsizeMax + 1)]

\* usize::checked_add
CheckedAdd(a, b) ==
    IF a + b > UsizeMax THEN [some |-> FALSE, val |-> 0]
    ELSE [some |-> TRUE, val |-> a + b]

\* <[u8]>::get(start..end): None when start > end or end > len.
SliceGet(buf, start, end) ==
    IF start > end \/ end > Len(buf) THEN [some |-> FALSE, bytes |-> <<>>]
    ELSE [some |-> TRUE, bytes |-> SubSeq(buf, start + 1, end)]

\* <[u8; N]>::try_from(&[u8]): fails unless the slice holds exactly N bytes.
TryInto(bytes, N) ==
    IF Len(bytes) = N THEN [ok |-> TRUE, bytes |-> bytes]
    ELSE [ok |-> FALSE, bytes |-> <<>>]

\* One step of reading a big-endian number: limbs * 256 + carry, limb by limb.
RECURSIVE ShiftIn(_, _)
ShiftIn(limbs, carry) ==
    IF limbs = <<>> THEN <<>>
    ELSE LET t == Head(limbs) * 256 + carry
         IN  <<t % 65536>> \o ShiftIn(Tail(limbs), t \div 65536)

RECURSIVE FoldBe(_, _)
FoldBe(acc, bytes) ==
    IF bytes = <<>> THEN acc
    ELSE FoldBe(ShiftIn(acc, Head(bytes)), Tail(bytes))

\* uN::from_le_bytes in place of from_be_bytes: the first byte is the least
\* significant.
UFromLeBytes(bytes) ==
    FoldBe([j \in 1..((Len(bytes) + 1) \div 2) |-> 0],
           [i \in 1..Len(bytes) |-> bytes[Len(bytes) + 1 - i]])

\* uN::from_be_bytes: the first byte is the most significant.
UFromBeBytes(bytes) ==
    FoldBe([j \in 1..((Len(bytes) + 1) \div 2) |-> 0], bytes)

\* i32::from_be_bytes: the big-endian bit pattern read as two's complement.
I32FromBeBytes(bytes) ==
    LET u == UFromBeBytes(bytes)
    IN  IF u[2] >= 32768 THEN (u[2] - 65536) * 65536 + u[1]
        ELSE u[2] * 65536 + u[1]

\* Iterator::rposition in place of position: the index of the last zero byte.
NulRPosition(bytes) ==
    IF \E i \in 1..Len(bytes) : bytes[i] = 0
    THEN [some |-> TRUE,
          n |-> (CHOOSE i \in 1..Len(bytes) :
                    bytes[i] = 0 /\ \A j \in (i + 1)..Len(bytes) : bytes[j] # 0) - 1]
    ELSE [some |-> FALSE, n |-> 0]

\* Iterator::position(|&b| b == 0): the 0-based index of the first zero byte.
NulPosition(bytes) ==
    IF \E i \in 1..Len(bytes) : bytes[i] = 0
    THEN [some |-> TRUE,
          n |-> (CHOOSE i \in 1..Len(bytes) :
                    bytes[i] = 0 /\ \A j \in 1..(i - 1) : bytes[j] # 0) - 1]
    ELSE [some |-> FALSE, n |-> 0]

\* CStr::from_bytes_with_nul: exactly one nul, and it is the last byte.
FromBytesWithNul(bytes) ==
    /\ Len(bytes) > 0
    /\ bytes[Len(bytes)] = 0
    /\ \A i \in 1..(Len(bytes) - 1) : bytes[i] # 0

IsCont(b) == b >= 128 /\ b <= 191

\* str::from_utf8: well-formed UTF-8 (no overlong forms, no surrogates,
\* nothing above U+10FFFF), checked from byte i on.
RECURSIVE Utf8From(_, _)
Utf8From(s, i) ==
    IF i > Len(s) THEN TRUE
    ELSE LET b == s[i]
             has(k) == i + k <= Len(s)
         IN  CASE b <= 127 -> Utf8From(s, i + 1)
               [] b >= 194 /\ b <= 223 ->
                    has(1) /\ IsCont(s[i + 1]) /\ Utf8From(s, i + 2)
               [] b = 224 ->
                    has(2) /\ s[i + 1] >= 160 /\ s[i + 1] <= 191
                           /\ IsCont(s[i + 2]) /\ Utf8From(s, i + 3)
               [] (b >= 225 /\ b <= 236) \/ b = 238 \/ b = 239 ->
                    has(2) /\ IsCont(s[i + 1]) /\ IsCont(s[i + 2])
                           /\ Utf8From(s, i + 3)
               [] b = 237 ->
                    has(2) /\ s[i + 1] >= 128 /\ s[i + 1] <= 159
                           /\ IsCont(s[i + 2]) /\ Utf8From(s, i + 3)
               [] b = 240 ->
                    has(3) /\ s[i + 1] >= 144 /\ s[i + 1] <= 191
                           /\ IsCont(s[i + 2]) /\ IsCont(s[i + 3])
                           /\ Utf8From(s, i + 4)
               [] b >= 241 /\ b <= 243 ->
                    has(3) /\ IsCont(s[i + 1]) /\ IsCont(s[i + 2])
                           /\ IsCont(s[i + 3]) /\ Utf8From(s, i + 4)
               [] b = 244 ->
                    has(3) /\ s[i + 1] >= 128 /\ s[i + 1] <= 143
                           /\ IsCont(s[i + 2]) /\ IsCont(s[i + 3])
                           /\ Utf8From(s, i + 4)
               [] OTHER -> FALSE

FromUtf8(bytes) == Utf8From(bytes, 1)

\* <[u8]>::rchunks in place of chunks: the pieces taken from the end.
RECURSIVE RChunks(_, _)
RChunks(bytes, n) ==
    IF bytes = <<>> THEN <<>>
    ELSE LET k == Min(n, Len(bytes))
         IN  <<SubSeq(bytes, Len(bytes) - k + 1, Len(bytes))>>
             \o RChunks(SubSeq(bytes, 1, Len(bytes) - k), n)

\* <[u8]>::chunks(n): consecutive pieces of n bytes, the last one shorter when
\* the length is no multiple of n.
RECURSIVE Chunks(_, _)
Chunks(bytes, n) ==
    IF bytes = <<>> THEN <<>>
    ELSE LET k == Min(n, Len(bytes))
         IN  <<SubSeq(bytes, 1, k)>> \o Chunks(SubSeq(bytes, k + 1, Len(bytes)), n)

(* ------------------------------ Decoder -------------------------------- *)

\* Decoder::new
New(buf) == [buffer |-> buf, index |-> 0]

\* read::<N> storing self.index = end before the range is checked.
ReadAdvanceFirst(self, N) ==
    LET end == CheckedAdd(self.index, N)
    IN  IF ~end.some THEN Err("AddOverflow", 0, self.index)
        ELSE LET got == SliceGet(self.buffer, self.index, end.val)
             IN  IF ~got.some THEN Err("EndOfBuffer", end.val, end.val)
                 ELSE OkBytes(got.bytes, end.val)

\* read::<N> reporting EndOfBuffer { index: self.index } instead of the end.
ReadReportsStart(self, N) ==
    LET end == CheckedAdd(self.index, N)
    IN  IF ~end.some THEN Err("AddOverflow", 0, self.index)
        ELSE LET got == SliceGet(self.buffer, self.index, end.val)
             IN  IF ~got.some THEN Err("EndOfBuffer", self.index, self.index)
                 ELSE OkBytes(got.bytes, end.val)

\* Decoder::read::<N>
Read(self, N) ==
    LET end == CheckedAdd(self.index, N)
    IN  IF ~end.some THEN Err("AddOverflow", 0, self.index)
        ELSE LET got == SliceGet(self.buffer, self.index, end.val)
             IN  IF ~got.some THEN Err("EndOfBuffer", end.val, self.index)
                 ELSE LET arr == TryInto(got.bytes, N)
                      IN  IF ~arr.ok THEN Err("SliceError", 0, self.index)
                          ELSE OkBytes(arr.bytes, end.val)

\* read_slice without the store self.index = end.
ReadSliceNoAdvance(self, len) ==
    LET end == CheckedAdd(self.index, len)
    IN  IF ~end.some THEN Err("AddOverflow", 0, self.index)
        ELSE LET got == SliceGet(self.buffer, self.index, end.val)
             IN  IF ~got.some THEN Err("EndOfBuffer", end.val, self.index)
                 ELSE OkBytes(got.bytes, self.index)

\* Decoder::read_slice
ReadSliceOf(self, len) ==
    LET end == CheckedAdd(self.index, len)
    IN  IF ~end.some THEN Err("AddOverflow", 0, self.index)
        ELSE LET got == SliceGet(self.buffer, self.index, end.val)
             IN  IF ~got.some THEN Err("EndOfBuffer", end.val, self.index)
                 ELSE OkBytes(got.bytes, end.val)

\* The unsigned typed reads: read::<size_of::<T>>()? then T::from_be_bytes.
ReadUnsigned(self, size) ==
    LET r == Read(self, size)
    IN  IF ~r.ok THEN r
        ELSE [Blank EXCEPT !.num = UFromBeBytes(r.bytes), !.index = r.index]

\* Decoder::read_u8
ReadU8Of(self) == ReadUnsigned(self, SizeOfU8)

\* Decoder::read_u32
ReadU32Of(self) == ReadUnsigned(self, SizeOfU32)

\* Decoder::read_u16
ReadU16Of(self) == ReadUnsigned(self, SizeOfU16)

\* Decoder::read_u64
ReadU64Of(self) == ReadUnsigned(self, SizeOfU64)

\* Decoder::read_i32
ReadI32Of(self) ==
    LET r == Read(self, SizeOfI32)
    IN  IF ~r.ok THEN r
        ELSE [Blank EXCEPT !.int = I32FromBeBytes(r.bytes), !.index = r.index]

\* Decoder::read_bool
ReadBoolOf(self) ==
    LET r == ReadU8Of(self)
    IN  IF ~r.ok THEN r
        ELSE [Blank EXCEPT !.flag = (r.num = <<1>>), !.index = r.index]

\* Decoder::read_cstring::<MAX>
ReadCStringOf(self, MAX) ==
    LET r == Read(self, MAX)
    IN  IF ~r.ok THEN r
        ELSE LET nul_idx == NulPosition(r.bytes)
             IN  IF nul_idx.some /\ nul_idx.n = 0 THEN OkNone(r.index)
                 ELSE IF nul_idx.some
                      THEN LET upTo == SubSeq(r.bytes, 1, nul_idx.n + 1)
                           IN  IF FromBytesWithNul(upTo) THEN OkBytes(upTo, r.index)
                               ELSE Err("FromBytesWithNulError", 0, r.index)
                      ELSE OkNone(r.index)

\* Decoder::read_const_string::<MAX>
ReadConstStringOf(self, MAX) ==
    LET r == Read(self, MAX)
    IN  IF ~r.ok THEN r
        ELSE LET nul_idx == NulPosition(r.bytes)
             IN  IF nul_idx.some /\ nul_idx.n = 0 THEN OkNone(r.index)
                 ELSE IF nul_idx.some
                      THEN LET upTo == SubSeq(r.bytes, 1, nul_idx.n + 1)
                           IN  IF FromUtf8(upTo) THEN OkBytes(upTo, r.index)
                               ELSE Err("Utf8Error", 0, r.index)
                      ELSE OkNone(r.index)

\* read_string putting the index back when the bytes are no UTF-8.
ReadStringRewinds(self, len) ==
    LET r == ReadSliceOf(self, len)
    IN  IF ~r.ok THEN r
        ELSE IF FromUtf8(r.bytes) THEN OkBytes(r.bytes, r.index)
        ELSE Err("Utf8Error", 0, self.index)

\* Decoder::read_string
ReadStringOf(self, len) ==
    LET r == ReadSliceOf(self, len)
    IN  IF ~r.ok THEN r
        ELSE IF FromUtf8(r.bytes) THEN OkBytes(r.bytes, r.index)
        ELSE Err("Utf8Error", 0, r.index)

\* Decoder::read_ipv4
ReadIpv4Of(self, length) ==
    IF length # Ipv4Len THEN Err("NotEnoughBytes", 0, self.index)
    ELSE Read(self, 4)

\* read_ipv4s reading the slice before it looks at the length.
ReadIpv4sReadsFirst(self, length) ==
    LET ips == ReadSliceOf(self, length)
    IN  IF ~ips.ok THEN ips
        ELSE IF length % Ipv4sChunk # 0 THEN Err("NotEnoughBytes", 0, ips.index)
        ELSE LET cs == Chunks(ips.bytes, Ipv4sChunk)
             IN  [Blank EXCEPT
                    !.list = [i \in 1..Len(cs) |->
                                <<cs[i][1], cs[i][2], cs[i][3], cs[i][4]>>],
                    !.index = ips.index]

\* Decoder::read_ipv4s
ReadIpv4sOf(self, length) ==
    IF length % Ipv4sChunk # 0 THEN Err("NotEnoughBytes", 0, self.index)
    ELSE LET ips == ReadSliceOf(self, length)
         IN  IF ~ips.ok THEN ips
             ELSE LET cs == Chunks(ips.bytes, Ipv4sChunk)
                  IN  [Blank EXCEPT
                         !.list = [i \in 1..Len(cs) |->
                                     <<cs[i][1], cs[i][2], cs[i][3], cs[i][4]>>],
                         !.index = ips.index]

\* Decoder::read_ipv6s
ReadIpv6sOf(self, length) ==
    IF length % Ipv6sChunk # 0 THEN Err("NotEnoughBytes", 0, self.index)
    ELSE LET ips == ReadSliceOf(self, length)
         IN  IF ~ips.ok THEN ips
             ELSE LET cs == Chunks(ips.bytes, Ipv6sChunk)
                  IN  IF \E i \in 1..Len(cs) : ~TryInto(cs[i], 16).ok
                      THEN Err("SliceError", 0, ips.index)
                      ELSE [Blank EXCEPT
                              !.list = [i \in 1..Len(cs) |-> TryInto(cs[i], 16).bytes],
                              !.index = ips.index]

\* Decoder::read_pair_ipv4s
ReadPairIpv4sOf(self, length) ==
    IF length % PairChunk # 0 THEN Err("NotEnoughBytes", 0, self.index)
    ELSE LET ips == ReadSliceOf(self, length)
         IN  IF ~ips.ok THEN ips
             ELSE LET cs == Chunks(ips.bytes, PairChunk)
                  IN  [Blank EXCEPT
                         !.list = [i \in 1..Len(cs) |->
                                     << <<cs[i][1], cs[i][2], cs[i][3], cs[i][4]>>,
                                        <<cs[i][5], cs[i][6], cs[i][7], cs[i][8]>> >>],
                         !.index = ips.index]

\* buffer() taking the rest: the unread bytes, and the index moved to the end.
BufferTakesRest(self) ==
    OkBytes(SubSeq(self.buffer, self.index + 1, Len(self.buffer)), Len(self.buffer))

\* Decoder::buffer: &self.buffer[self.index..], with &self (nothing is written).
BufferOf(self) ==
    OkBytes(SubSeq(self.buffer, self.index + 1, Len(self.buffer)), self.index)

(* ------------------------------ actions -------------------------------- *)

Self == [buffer |-> buffer, index |-> index]

\* A call returns: the caller holds ret, the decoder holds ret.index.
Return(op, arg, ret) ==
    /\ index' = ret.index
    /\ last' = [op |-> op, arg |-> arg, before |-> index, ret |-> ret]
    /\ UNCHANGED buffer

Init ==
    /\ buffer \in Buffers
    /\ index = New(buffer).index
    /\ last = [op |-> "new", arg |-> 0, before |-> 0, ret |-> Blank]

ReadN == \E N \in ReadSizes : Return("read", N, Read(Self, N))

ReadU8 == Return("read_u8", 0, ReadU8Of(Self))

ReadU32 == Return("read_u32", 0, ReadU32Of(Self))

ReadI32 == Return("read_i32", 0, ReadI32Of(Self))

ReadU16 == Return("read_u16", 0, ReadU16Of(Self))

ReadU64 == Return("read_u64", 0, ReadU64Of(Self))

ReadCString == \E MAX \in StrSizes : Return("read_cstring", MAX, ReadCStringOf(Self, MAX))

ReadConstString ==
    \E MAX \in StrSizes : Return("read_const_string", MAX, ReadConstStringOf(Self, MAX))

ReadSlice == \E len \in LenArgs : Return("read_slice", len, ReadSliceOf(Self, len))

ReadString == \E len \in LenArgs : Return("read_string", len, ReadStringOf(Self, len))

ReadIpv4 == \E length \in LenArgs : Return("read_ipv4", length, ReadIpv4Of(Self, length))

ReadIpv4s == \E length \in LenArgs : Return("read_ipv4s", length, ReadIpv4sOf(Self, length))

ReadIpv6s == \E length \in LenArgs : Return("read_ipv6s", length, ReadIpv6sOf(Self, length))

ReadPairIpv4s ==
    \E length \in LenArgs : Return("read_pair_ipv4s", length, ReadPairIpv4sOf(Self, length))

ReadBool == Return("read_bool", 0, ReadBoolOf(Self))

BufferCall == Return("buffer", 0, BufferOf(Self))

Next ==
    \/ ReadN
    \/ ReadU8
    \/ ReadU32
    \/ ReadI32
    \/ ReadU16
    \/ ReadU64
    \/ ReadCString
    \/ ReadConstString
    \/ ReadSlice
    \/ ReadString
    \/ ReadIpv4
    \/ ReadIpv4s
    \/ ReadIpv6s
    \/ ReadPairIpv4s
    \/ ReadBool
    \/ BufferCall

Spec == Init /\ [][Next]_vars

(* ------------------------------ claims --------------------------------- *)

\* The bytes buffer[p .. p+n) of the source, as a sequence.
Range(p, n) == [i \in 1..n |-> buffer[p + i]]

Reads ==
    {"read", "read_u8", "read_u16", "read_u32", "read_u64", "read_i32", "read_bool",
     "read_slice", "read_string", "read_cstring", "read_const_string",
     "read_ipv4", "read_ipv4s", "read_ipv6s", "read_pair_ipv4s"}

\* C1: after any sequence of reads, failed or not, on any buffer, the position
\* lies between 0 and the length of the buffer.
C1_PositionInBounds == 0 <= index /\ index <= Len(buffer)

\* A read failed on a cursor that stands at the end of a non-empty buffer.
C1_Witness ==
    /\ last.op \in Reads
    /\ ~last.ret.ok
    /\ last.before = Len(buffer)
    /\ Len(buffer) > 0

\* The number of bytes a successful read consumes.
Consumed(op, arg) ==
    CASE op \in {"read_u8", "read_bool"} -> 1
      [] op = "read_u16" -> 2
      [] op \in {"read_u32", "read_i32", "read_ipv4"} -> 4
      [] op = "read_u64" -> 8
      [] OTHER -> arg

\* C2: a read that returns successfully moves the position from p to exactly
\* p + k, k the number of bytes that read consumes (MAX for the fixed string
\* fields also when they return no value); the position never decreases.
C2_ExactAdvance ==
    /\ (last.op \in Reads /\ last.ret.ok
          => index = last.before + Consumed(last.op, last.arg))
    /\ index >= last.before

\* read_slice(len) returned len > 0 bytes from a position p > 0.
C2_Witness ==
    /\ last.op = "read_slice"
    /\ last.ret.ok
    /\ last.arg > 0
    /\ last.before > 0
    /\ index = last.before + last.arg

\* C3: read<N> and read_slice(N) at position p: when p + N exceeds the length
\* (and is representable) they fail with EndOfBuffer carrying p + N and leave
\* the position at p; when p + N <= length they return buffer[p .. p+N).
C3_BoundsSafety ==
    last.op \in {"read", "read_slice"} =>
        LET end == last.before + last.arg
        IN  /\ (end > Len(buffer) /\ end <= UsizeMax
                  => /\ ~last.ret.ok
                     /\ last.ret.err = "EndOfBuffer"
                     /\ last.ret.errIndex = end
                     /\ index = last.before)
            /\ (end <= Len(buffer)
                  => /\ last.ret.ok
                     /\ last.ret.bytes = Range(last.before, last.arg)
                     /\ index = end)

\* read<N> from p > 0 asked for more than is left and got EndOfBuffer { p + N }.
C3_Witness ==
    /\ last.op = "read"
    /\ last.before > 0
    /\ last.ret.err = "EndOfBuffer"
    /\ last.ret.errIndex = last.before + last.arg
    /\ last.ret.errIndex > last.before

\* C4 as claimed: on every failure of every read, whatever the error, the
\* position after the call equals the position before it.
C4_NoPartialConsumption ==
    last.op \in Reads /\ ~last.ret.ok => index = last.before

\* C4 as amended: a read failing with AddOverflow, EndOfBuffer or NotEnoughBytes
\* leaves the position where it was; the only other failure is the UTF-8 check of
\* read_string(len) and read_const_string<MAX>, which comes after the bytes were
\* consumed: the position is then p + len, resp. p + MAX.
C4_FailurePositions ==
    last.op \in Reads /\ ~last.ret.ok =>
        IF last.ret.err \in {"AddOverflow", "EndOfBuffer", "NotEnoughBytes"}
        THEN index = last.before
        ELSE /\ last.ret.err = "Utf8Error"
             /\ last.op \in {"read_string", "read_const_string"}
             /\ index = last.before + last.arg

\* read_const_string<MAX> failed on the encoding of a field it had consumed.
C4_Witness ==
    /\ last.op = "read_const_string"
    /\ last.ret.err = "Utf8Error"
    /\ last.arg > 0
    /\ index = last.before + last.arg

\* C5: when p + n does not fit the offset type, read<n> and read_slice(n) fail
\* with AddOverflow, carry no wrapped end offset, return no bytes and leave the
\* position at p.
C5_OverflowSafety ==
    last.op \in {"read", "read_slice"} /\ last.before + last.arg > UsizeMax =>
        /\ ~last.ret.ok
        /\ last.ret.err = "AddOverflow"
        /\ last.ret.errIndex = 0
        /\ last.ret.bytes = <<>>
        /\ index = last.before

\* read_slice(n) was called at p > 0 with p + n beyond the offset type.
C5_Witness ==
    /\ last.op = "read_slice"
    /\ last.before > 0
    /\ last.arg <= UsizeMax
    /\ last.before + last.arg > UsizeMax
    /\ last.ret.err = "AddOverflow"

\* The limb of weight 65536^(j-1) of the big-endian value of k bytes: the sum of
\* bytes[i] * 256^(k-i) has the bytes k-2(j-1) and k-2(j-1)-1 in that limb.
BeLimb(bytes, j) ==
    LET lo == Len(bytes) - 2 * (j - 1)
    IN  bytes[lo] + (IF lo > 1 THEN 256 * bytes[lo - 1] ELSE 0)

\* The width of each integer read.
Width(op) ==
    CASE op = "read_u8" -> 1
      [] op = "read_u16" -> 2
      [] op = "read_u64" -> 8
      [] OTHER -> 4

\* C6: read_u8/u16/u32/u64 return the unsigned big-endian value of the next
\* 1/2/4/8 bytes, and read_i32 the two's-complement reading of the next 4:
\* the first byte counts b - 256 when it is >= 0x80.
C6_BigEndian ==
    /\ (last.op \in {"read_u8", "read_u16", "read_u32", "read_u64"} /\ last.ret.ok
          => LET k == Width(last.op)
                 b == Range(last.before, k)
             IN  /\ Len(last.ret.num) = (k + 1) \div 2
                 /\ \A j \in 1..Len(last.ret.num) : last.ret.num[j] = BeLimb(b, j))
    /\ (last.op = "read_i32" /\ last.ret.ok
          => LET b == Range(last.before, 4)
                 top == IF b[1] >= 128 THEN b[1] - 256 ELSE b[1]
             IN  last.ret.int = top * 16777216 + b[2] * 65536 + b[3] * 256 + b[4])

\* read_i32 decoded 80 00 00 00 to the i32 minimum.
C6_Witness ==
    /\ last.op = "read_i32"
    /\ last.ret.ok
    /\ Range(last.before, 4) = <<128, 0, 0, 0>>
    /\ last.ret.int = -2147483647 - 1

\* The element size of each address-list read.
ElemSize(op) ==
    CASE op = "read_ipv4s" -> 4
      [] op = "read_ipv6s" -> 16
      [] OTHER -> 8

\* C7: read_ipv4s / read_ipv6s / read_pair_ipv4s with a length that is a
\* multiple of the element size E and available at p return length / E
\* elements, the i-th built from buffer[p + i*E .. p + (i+1)*E) in input order;
\* a pair is the first 4 bytes of its group, then the last 4.
C7_AddressLists ==
    last.op \in {"read_ipv4s", "read_ipv6s", "read_pair_ipv4s"} =>
        LET E == ElemSize(last.op)
        IN  last.arg % E = 0 /\ last.before + last.arg <= Len(buffer) =>
              /\ last.ret.ok
              /\ Len(last.ret.list) = last.arg \div E
              /\ \A i \in 1..(last.arg \div E) :
                    LET g == Range(last.before + (i - 1) * E, E)
                    IN  last.ret.list[i] =
                          IF last.op = "read_pair_ipv4s"
                          THEN <<SubSeq(g, 1, 4), SubSeq(g, 5, 8)>>
                          ELSE g

\* read_ipv6s returned two addresses.
C7_Witness ==
    /\ last.op = "read_ipv6s"
    /\ last.ret.ok
    /\ Len(last.ret.list) = 2
    /\ last.ret.list[1] # last.ret.list[2]

\* C8: the address reads look at their length argument first: a length that
\* is not 4 (read_ipv4), or no multiple of 4, 16, 8 (read_ipv4s, read_ipv6s,
\* read_pair_ipv4s) fails with NotEnoughBytes in every state, also when fewer
\* than length bytes remain, and the position is unchanged.
C8_LengthCheckedFirst ==
    ( \/ last.op = "read_ipv4" /\ last.arg # 4
      \/ last.op = "read_ipv4s" /\ last.arg % 4 # 0
      \/ last.op = "read_ipv6s" /\ last.arg % 16 # 0
      \/ last.op = "read_pair_ipv4s" /\ last.arg % 8 # 0 )
    => /\ ~last.ret.ok
       /\ last.ret.err = "NotEnoughBytes"
       /\ index = last.before

\* read_ipv4s(10) with fewer than 10 bytes left reported NotEnoughBytes.
C8_Witness ==
    /\ last.op = "read_ipv4s"
    /\ last.arg = 10
    /\ last.before + last.arg > Len(buffer)
    /\ last.ret.err = "NotEnoughBytes"

\* C9: read_const_string<MAX> and read_cstring<MAX> on MAX available bytes:
\* no zero byte, or a zero byte first, gives "no value" and no error; a first
\* zero byte at n > 0 gives the field bytes 0..n with the terminator (the rest
\* is ignored), unless read_const_string finds them no valid UTF-8 and fails.
C9_NulTerminatedField ==
    last.op \in {"read_cstring", "read_const_string"}
      /\ last.before + last.arg <= Len(buffer) =>
        LET field == Range(last.before, last.arg)
            zeros == { i \in 1..last.arg : field[i] = 0 }
        IN  IF zeros = {} \/ 1 \in zeros
            THEN last.ret.ok /\ ~last.ret.some
            ELSE LET n1 == CHOOSE i \in zeros : \A j \in zeros : i <= j
                     text == SubSeq(field, 1, n1)
                 IN  IF last.op = "read_const_string" /\ ~FromUtf8(text)
                     THEN ~last.ret.ok /\ last.ret.err = "Utf8Error"
                     ELSE last.ret.ok /\ last.ret.some /\ last.ret.bytes = text

\* read_cstring<MAX> returned a value shorter than the field: bytes follow the
\* terminator, another zero byte among them.
C9_Witness ==
    /\ last.op = "read_cstring"
    /\ last.ret.ok
    /\ last.ret.some
    /\ Len(last.ret.bytes) + 1 < last.arg
    /\ buffer[last.before + last.arg] = 0

\* Every read, as a function of the cursor alone.
Outcomes(self) ==
    << [N \in ReadSizes |-> Read(self, N)],
       [len \in LenArgs |-> ReadSliceOf(self, len)],
       [len \in LenArgs |-> ReadStringOf(self, len)],
       [MAX \in StrSizes |-> ReadCStringOf(self, MAX)],
       [MAX \in StrSizes |-> ReadConstStringOf(self, MAX)],
       ReadU8Of(self), ReadU16Of(self), ReadU32Of(self), ReadU64Of(self),
       ReadI32Of(self), ReadBoolOf(self),
       [len \in LenArgs |-> ReadIpv4Of(self, len)],
       [len \in LenArgs |-> ReadIpv4sOf(self, len)],
       [len \in LenArgs |-> ReadIpv6sOf(self, len)],
       [len \in LenArgs |-> ReadPairIpv4sOf(self, len)] >>

\* C10: Decoder::buffer at position p returns the unread bytes buffer[p .. L),
\* never fails, and leaves position and buffer as they were, so that every
\* later read gives what it would have given without the call.
C10_RemainingIsFrame ==
    [][ last'.op = "buffer" =>
          /\ last'.ret.ok
          /\ last'.ret.bytes = Range(index, Len(buffer) - index)
          /\ index' = index
          /\ buffer' = buffer
          /\ Outcomes([buffer |-> buffer', index |-> index']) = Outcomes(Self) ]_vars

\* buffer() was called in the middle of a buffer and returned the rest of it.
C10_Witness ==
    /\ last.op = "buffer"
    /\ last.before > 0
    /\ last.before < Len(buffer)
    /\ Len(last.ret.bytes) = Len(buffer) - last.before

====
